---- MODULE Spec2Model ----
(***************************************************************************)
(* topbeat (src/main.go): the sampling loop of Topbeat.Run, the trackers   *)
(* it keeps (procsMap, lastCpuTimes) and the percentage arithmetic.        *)
(*                                                                         *)
(* Conventions of the model:                                               *)
(*  - a uint64 is a number modulo Word = 2^WordBits (the width is scaled   *)
(*    down from 64 bits, the wrap-around of +, - and * is kept);           *)
(*  - a float64 is a record [k, n, d]: k = "fin" is the rational n/d in    *)
(*    lowest terms, k = "nan", "+inf", "-inf" are the IEEE special values; *)
(*    finite arithmetic is exact (no binary rounding error);               *)
(*  - a Go map is a function whose DOMAIN is the set of keys present.      *)
(***************************************************************************)
EXTENDS Integers, Sequences, FiniteSets, TLC

\* ------------------------------------------------------------- bounds
WordBits == 15
MaxTicks == 2

Word == 2 ^ WordBits

\* ------------------------------------------------------------- uint64
\* a subtraction in signed arithmetic of unbounded width
SubW_Signed(a, b) == a - b

AddW(a, b) == (a + b) % Word
SubW(a, b) == ((a - b) + Word) % Word
MulW(a, b) == (a * b) % Word

\* ------------------------------------------------------------- float64
RECURSIVE Gcd(_, _)
Gcd(a, b) == IF b = 0 THEN a ELSE Gcd(b, a % b)

Abs(i) == IF i < 0 THEN -i ELSE i

\* the finite float n/d (d # 0), in lowest terms with a positive denominator
Fin(n, d) ==
    LET g == Gcd(Abs(n), Abs(d))
        s == IF d < 0 THEN -1 ELSE 1
    IN  [k |-> "fin", n |-> (s * n) \div g, d |-> (s * d) \div g]

NaN == [k |-> "nan", n |-> 0, d |-> 1]
PosInf == [k |-> "+inf", n |-> 0, d |-> 1]
NegInf == [k |-> "-inf", n |-> 0, d |-> 1]

\* float64(i) of an integer i
Float(i) == Fin(i, 1)

Sign(x) == IF x.k = "+inf" THEN 1 ELSE IF x.k = "-inf" THEN -1
           ELSE IF x.n > 0 THEN 1 ELSE IF x.n < 0 THEN -1 ELSE 0

Signed(s) == IF s > 0 THEN PosInf ELSE IF s < 0 THEN NegInf ELSE NaN

\* x / y in IEEE 754: x/0 is an infinity, 0/0 and inf/inf are NaN; no panic
FDiv(x, y) ==
    IF x.k = "nan" \/ y.k = "nan" THEN NaN
    ELSE IF x.k = "fin" /\ y.k = "fin"
         THEN IF y.n = 0 THEN Signed(Sign(x)) ELSE Fin(x.n * y.d, x.d * y.n)
    ELSE IF x.k = "fin" THEN Float(0)
    ELSE IF y.k = "fin" THEN Signed(Sign(x) * (IF y.n < 0 THEN -1 ELSE 1))
    ELSE NaN

\* x * y in IEEE 754: inf * 0 is NaN
FMul(x, y) ==
    IF x.k = "nan" \/ y.k = "nan" THEN NaN
    ELSE IF x.k = "fin" /\ y.k = "fin" THEN Fin(x.n * y.n, x.d * y.d)
    ELSE Signed(Sign(x) * Sign(y))

\* math.Floor and math.Ceil of the rational n/d, d > 0
Floor(n, d) == n \div d
Ceil(n, d) == IF n % d = 0 THEN n \div d ELSE (n \div d) + 1

\* Round that takes the ceiling whatever the fraction
Round_AlwaysUp(val, roundOnNum, roundOnDen, places) ==
    IF val.k # "fin" THEN val
    ELSE LET pow == 10 ^ places
             digit == Fin(pow * val.n, val.d)
         IN  Fin(Ceil(digit.n, digit.d), pow)

\* Round(val, roundOn, places), roundOn = roundOnNum/roundOnDen.
\* math.Modf splits digit into an integer part truncated towards zero and a
\* fraction of the sign of digit; Modf of an infinity gives a NaN fraction,
\* every comparison with NaN is false, and Floor keeps NaN and infinities.
Round(val, roundOnNum, roundOnDen, places) ==
    IF val.k # "fin" THEN val
    ELSE LET pow == 10 ^ places
             digit == Fin(pow * val.n, val.d)
             int == IF digit.n >= 0 THEN digit.n \div digit.d
                    ELSE -((-digit.n) \div digit.d)
             divN == digit.n - int * digit.d
             round == IF divN * roundOnDen >= roundOnNum * digit.d
                      THEN Ceil(digit.n, digit.d)
                      ELSE Floor(digit.n, digit.d)
         IN  Fin(round, pow)

\* ------------------------------------------------------------- data
Second == 1000000
UsPerMs == 1000

\* by how many microseconds a sleep can overshoot the period
SleepOvershoot == {0, 600}

\* what the operating system can answer (the queries live outside main.go)
ProcessIds == {1, 2}
Names == {"nginx", "nginx-worker"}

\* CpuTimes: the eight cumulative counters
CpuT(u, n, s, i, w, q, f, st) ==
    [User |-> u, Nice |-> n, System |-> s, Idle |-> i, IOWait |-> w,
     Irq |-> q, SoftIrq |-> f, Steal |-> st]

\* the samples GetCpuTimes() can return; a later sample may be below an earlier
\* one (the counters regress)
CpuSamples ==
    { CpuT(u, 100 + x, 900 + 2 * x, i, 40 + x, 30 + x, 20 + x, 10 + x) :
        u \in {1000, 1050, 1051}, i \in {2900, 2949, 2950, 23949}, x \in {0, 1} }

\* the samples the loop of Run is explored with
RunCpuSamples ==
    { CpuT(1000, 100, 900, 2900, 40, 30, 20, 10),
      CpuT(1050, 100, 900, 2950, 40, 30, 20, 10) }

\* the MemStat values GetMemory() and GetSwap() can return: a total of zero,
\* used above the total, quotients that end on a half at the third decimal, and
\* a used value whose hundredfold is beyond the width of the counters
MemSamples ==
    { [Total |-> t, Used |-> u] :
        t \in {0, 1, 3, 7, 10, 32, 64, 327}, u \in (0..12) \cup {327, 400} }

\* the samples the loop of Run is explored with
RunMemSamples == { [Total |-> 0, Used |-> 1], [Total |-> 10, Used |-> 2] }

\* one reading of a process: name, cumulative cpu times (ms), resident size
ProcReadings ==
    { [Name |-> "nginx", User |-> 5, System |-> 3, Rss |-> 0],
      [Name |-> "nginx-worker", User |-> 1500, System |-> 600, Rss |-> 2] }

Err == [err |-> TRUE]
NoProcess == [Pid |-> 0]
NoCpuTimes == [nil |-> TRUE]
NoEvent == [type |-> "none"]

\* the slices Pids() can return: live pids, in any order
PidLists == { <<>>, <<1>>, <<1, 2>>, <<2, 1>> }

\* what Pids() returns: (pids, err), pids being nil with an error
PidsResults ==
    { [err |-> FALSE, pids |-> l] : l \in PidLists } \cup { [err |-> TRUE, pids |-> <<>>] }

\* GetProcess(pid) at time t: the Process built from a reading
MkProcess(pid, r, t) ==
    [Pid |-> pid, Name |-> r.Name, CpuUser |-> r.User, CpuSystem |-> r.System,
     MemRss |-> r.Rss, ctime |-> t]

\* the configurations Init is given: TopConfig.Period and TopConfig.Procs are
\* pointers, NoCfg is nil and [v |-> x] points to x
NoCfg == [nil |-> TRUE]
Configs ==
    { [Period |-> NoCfg, Procs |-> NoCfg],
      [Period |-> [v |-> 0], Procs |-> [v |-> <<"(", "^nginx$">>]],
      [Period |-> [v |-> 2], Procs |-> [v |-> <<>>]] }

\* regexp.MatchString(reg, name): unanchored search; a pattern that does not
\* compile gives (false, err)
RegexpMatchString(reg, name) ==
    CASE reg = ".*" -> TRUE
      [] reg = "^nginx$" -> name = "nginx"
      [] reg = "nginx" -> name \in {"nginx", "nginx-worker"}
      [] OTHER -> FALSE

\* ------------------------------------------------------------- state
VARIABLES
    pc,            \* where main/Run stands
    isAlive, period, procs, procsMap, lastCpuTimes,   \* the Topbeat fields
    sent,          \* <<type, pid>> of each event sent on t.events in this iteration
    now,           \* the clock, in microseconds
    ticks,         \* iterations of the loop started
    pids, process, \* initProcStats, exportProcStats: the pids still to visit, the
                   \* process fetched in the last turn of the loop
    ok, oproc,     \* getProcCpuPercentage: the result of the map lookup
    mem_stat,      \* getRssPercent: what GetMemory returned
    t1, cpu_stat,  \* getCpuPercentage / exportSystemStats: old baseline, new sample
    event,         \* the event built and not yet sent
    logged,        \* the levels of the logp calls made in the last step of main/Run
    fetched,       \* exportProcStats: <<pid, name>> of the processes GetProcess has
                   \* returned in this pass, in order
    stopRequested  \* Stop has been called

vars == <<pc, isAlive, period, procs, procsMap, lastCpuTimes, sent, now,
          ticks, pids, process, ok, oproc, mem_stat, t1, cpu_stat, event,
          logged, fetched, stopRequested>>

\* ------------------------------------------------------------- pure parts
RECURSIVE MatchFrom(_, _, _)
MatchFrom(regs, i, name) ==
    IF i > Len(regs) THEN FALSE
    ELSE IF RegexpMatchString(regs[i], name) THEN TRUE
    ELSE MatchFrom(regs, i + 1, name)

\* a matcher that tries the first pattern only
MatchProcess_FirstPatternOnly(regs, name) ==
    Len(regs) > 0 /\ RegexpMatchString(regs[1], name)

MatchProcess(regs, name) == MatchFrom(regs, 1, name)

sum(t) ==
    AddW(AddW(AddW(AddW(AddW(AddW(AddW(t.User, t.Nice), t.System), t.Idle),
        t.IOWait), t.Irq), t.SoftIrq), t.Steal)

\* getUsedMemPercent without the test of the total
getUsedMemPercent_NoZeroGuard(m) ==
    Round(FDiv(Float(MulW(100, m.Used)), Float(m.Total)), 1, 2, 2)

getUsedMemPercent(m) ==
    IF m.Total = 0 THEN Float(0)
    ELSE Round(FDiv(Float(MulW(100, m.Used)), Float(m.Total)), 1, 2, 2)

\* memRes is what GetMemory() returns: Err or a MemStat
getRssPercent(rss, memRes) ==
    IF memRes = Err THEN Float(0)
    ELSE Round(FMul(FDiv(Float(rss), Float(memRes.Total)), Float(100)), 1, 2, 2)

\* getCpuPercentage that keeps the first baseline
getCpuPercentage_KeepsBaseline(last, t2) ==
    LET perc == IF last # NoCpuTimes
                THEN LET all_delta == SubW(sum(t2), sum(last))
                         user_delta == SubW(t2.User, last.User)
                     IN  FDiv(Float(MulW(100, user_delta)), Float(all_delta))
                ELSE Float(0)
    IN  [ret |-> Round(perc, 1, 2, 2),
         lastCpuTimes |-> IF last # NoCpuTimes THEN last ELSE t2]

\* getCpuPercentage(t2) with t.lastCpuTimes = last: the value returned (ret) and
\* the baseline it leaves
getCpuPercentage(last, t2) ==
    LET perc == IF last # NoCpuTimes
                THEN LET all_delta == SubW(sum(t2), sum(last))
                         user_delta == SubW(t2.User, last.User)
                     IN  FDiv(Float(MulW(100, user_delta)), Float(all_delta))
                ELSE Float(0)
    IN  [ret |-> Round(perc, 1, 2, 2), lastCpuTimes |-> t2]

\* an assignment that only overwrites an entry the map already has
setProc_OnlyKnownPid(map, proc) ==
    IF proc.Pid \in DOMAIN map THEN (proc.Pid :> proc) @@ map ELSE map

\* an assignment into a map made anew: the other entries are gone
setProc_DropsOthers(map, proc) == (proc.Pid :> proc)

\* t.procsMap[proc.Pid] = proc
setProc(map, proc) == (proc.Pid :> proc) @@ map

delta_proc(proc, o) ==
    AddW(SubW(proc.CpuUser, o.CpuUser), SubW(proc.CpuSystem, o.CpuSystem))

delta_time(proc, o) == (proc.ctime - o.ctime) \div UsPerMs

\* runtime.NumCPU()
NumCPU == 2

\* procCpuPercent(proc) with t.procsMap = map: the value returned (ret) and the
\* map it leaves; no caller in main.go
procCpuPercent(map, proc) ==
    IF proc.Pid \in DOMAIN map
    THEN LET o == map[proc.Pid]
             perc == FMul(FMul(FDiv(Float(delta_proc(proc, o)), Float(delta_time(proc, o))),
                               Float(100)), Float(NumCPU))
         IN  [ret |-> Round(perc, 1, 2, 2), procsMap |-> setProc(map, proc)]
    ELSE [ret |-> Float(0), procsMap |-> map]

\* getProcCpuPercentage with the formula of procCpuPercent
getProcCpuPercentage_TimesNumCPU(map, proc) == procCpuPercent(map, proc)

\* getProcCpuPercentage(proc) with t.procsMap = map: the value returned (ret) and
\* the map it leaves
getProcCpuPercentage(map, proc) ==
    IF proc.Pid \in DOMAIN map
    THEN LET o == map[proc.Pid]
             perc == FMul(FDiv(Float(delta_proc(proc, o)), Float(delta_time(proc, o))),
                          Float(100))
         IN  [ret |-> Round(perc, 1, 2, 2), procsMap |-> setProc(map, proc)]
    ELSE [ret |-> Float(0), procsMap |-> map]

\* ------------------------------------------------------------- main
\* main: topbeat := &Topbeat{}
Init ==
    /\ pc = "new"
    /\ isAlive = FALSE
    /\ period = 0
    /\ procs = <<>>
    /\ procsMap = <<>>
    /\ lastCpuTimes = NoCpuTimes
    /\ sent = <<>>
    /\ now = 0
    /\ ticks = 0
    /\ pids = <<>>
    /\ process = NoProcess
    /\ ok = FALSE
    /\ oproc = NoProcess
    /\ mem_stat = Err
    /\ t1 = NoCpuTimes
    /\ cpu_stat = NoCpuTimes
    /\ event = NoEvent
    /\ logged = {}
    /\ fetched = <<>>
    /\ stopRequested = FALSE

\* an Init that takes an empty pattern list for an absent one
TopbeatInit_EmptyMeansAll ==
    /\ pc = "new"
    /\ \E config \in Configs :
          /\ period' = IF config.Period # NoCfg THEN config.Period.v * Second
                        ELSE 1 * Second
          /\ procs' = IF config.Procs # NoCfg /\ config.Procs.v # <<>>
                       THEN config.Procs.v ELSE <<".*">>
    /\ pc' = "ready"
    /\ logged' = {"debug"}
    /\ UNCHANGED <<fetched, stopRequested>>
    /\ UNCHANGED <<isAlive, procsMap, lastCpuTimes, sent, now, ticks, pids,
                   process, ok, oproc, mem_stat, t1, cpu_stat, event>>

\* Topbeat.Init(config, events), then service.HandleSignals(topbeat.Stop)
TopbeatInit ==
    /\ pc = "new"
    /\ \E config \in Configs :
          /\ period' = IF config.Period # NoCfg THEN config.Period.v * Second
                        ELSE 1 * Second
          /\ procs' = IF config.Procs # NoCfg THEN config.Procs.v ELSE <<".*">>
    /\ pc' = "ready"
    /\ logged' = {"debug"}
    /\ UNCHANGED <<fetched, stopRequested>>
    /\ UNCHANGED <<isAlive, procsMap, lastCpuTimes, sent, now, ticks, pids,
                   process, ok, oproc, mem_stat, t1, cpu_stat, event>>

\* a Stop that also cancels a send in progress, so that Run returns
Stop_CancelsSend ==
    /\ pc # "new"
    /\ isAlive' = FALSE
    /\ stopRequested' = TRUE
    /\ pc' = IF pc \in {"sendSys", "sendProc"} THEN "returned" ELSE pc
    /\ UNCHANGED <<logged, fetched>>
    /\ UNCHANGED <<period, procs, procsMap, lastCpuTimes, sent, now, ticks,
                   pids, process, ok, oproc, mem_stat, t1, cpu_stat, event>>

\* Topbeat.Stop, called by the signal handler from its own goroutine
Stop ==
    /\ pc # "new"
    /\ isAlive' = FALSE
    /\ stopRequested' = TRUE
    /\ UNCHANGED <<logged, fetched>>
    /\ UNCHANGED <<pc, period, procs, procsMap, lastCpuTimes, sent, now, ticks,
                   pids, process, ok, oproc, mem_stat, t1, cpu_stat, event>>

\* Run: t.isAlive = true
RunStart ==
    /\ pc = "ready"
    /\ isAlive' = TRUE
    /\ pc' = "seed"
    /\ logged' = {}
    /\ UNCHANGED <<fetched, stopRequested>>
    /\ UNCHANGED <<period, procs, procsMap, lastCpuTimes, sent, now, ticks,
                   pids, process, ok, oproc, mem_stat, t1, cpu_stat, event>>

\* Run: t.initProcStats(), up to its loop over the pids; after an error of
\* Pids() the loop runs over the nil slice
initProcStats ==
    /\ pc = "seed"
    /\ procsMap' = <<>>
    /\ IF Len(procs) = 0
       THEN /\ pc' = "loop"
            /\ pids' = <<>>
            /\ logged' = {}
       ELSE \E res \in PidsResults :
               /\ pc' = "seedLoop"
               /\ pids' = res.pids
               /\ logged' = IF res.err THEN {"warn", "debug"} ELSE {"debug"}
    /\ UNCHANGED <<fetched, stopRequested>>
    /\ UNCHANGED <<isAlive, period, procs, lastCpuTimes, sent, now, ticks, process, ok,
                   oproc, mem_stat, t1, cpu_stat, event>>

\* a seeding that keeps only the processes matching a pattern
SeedStep_MatchedOnly ==
    /\ pc = "seedLoop"
    /\ IF pids = <<>>
       THEN /\ pc' = "loop"
            /\ process' = NoProcess
            /\ logged' = {}
            /\ UNCHANGED <<pids, procsMap>>
       ELSE \E got \in ProcReadings \cup {Err} :
               LET pid == Head(pids)
                   p == MkProcess(pid, got, now)
               IN  /\ pc' = "seedLoop"
                   /\ pids' = Tail(pids)
                   /\ logged' = IF got = Err THEN {"debug"} ELSE {}
                   /\ IF got = Err
                      THEN /\ process' = NoProcess
                           /\ UNCHANGED procsMap
                      ELSE /\ process' = p
                           /\ procsMap' = IF MatchProcess(procs, p.Name)
                                           THEN setProc(procsMap, p) ELSE procsMap
    /\ UNCHANGED <<fetched, stopRequested>>
    /\ UNCHANGED <<isAlive, period, procs, lastCpuTimes, sent, now, ticks, ok, oproc,
                   mem_stat, t1, cpu_stat, event>>

\* a seeding that gives up at the first process it cannot fetch
SeedStep_FailureEndsPass ==
    /\ pc = "seedLoop"
    /\ IF pids = <<>>
       THEN /\ pc' = "loop"
            /\ process' = NoProcess
            /\ logged' = {}
            /\ UNCHANGED <<pids, procsMap>>
       ELSE \E got \in ProcReadings \cup {Err} :
               LET pid == Head(pids)
                   p == MkProcess(pid, got, now)
               IN  /\ pc' = IF got = Err THEN "loop" ELSE "seedLoop"
                   /\ pids' = IF got = Err THEN <<>> ELSE Tail(pids)
                   /\ logged' = IF got = Err THEN {"debug"} ELSE {}
                   /\ IF got = Err
                      THEN /\ process' = NoProcess
                           /\ UNCHANGED procsMap
                      ELSE /\ process' = p
                           /\ procsMap' = setProc(procsMap, p)
    /\ UNCHANGED <<fetched, stopRequested>>
    /\ UNCHANGED <<isAlive, period, procs, lastCpuTimes, sent, now, ticks, ok, oproc,
                   mem_stat, t1, cpu_stat, event>>

\* initProcStats: one turn of the loop over the pids; with no pid left, return
SeedStep ==
    /\ pc = "seedLoop"
    /\ IF pids = <<>>
       THEN /\ pc' = "loop"
            /\ process' = NoProcess
            /\ logged' = {}
            /\ UNCHANGED <<pids, procsMap>>
       ELSE \E got \in ProcReadings \cup {Err} :
               LET pid == Head(pids)
                   p == MkProcess(pid, got, now)
               IN  /\ pc' = "seedLoop"
                   /\ pids' = Tail(pids)
                   /\ logged' = IF got = Err THEN {"debug"} ELSE {}
                   /\ IF got = Err
                      THEN /\ process' = NoProcess
                           /\ UNCHANGED procsMap
                      ELSE /\ process' = p
                           /\ procsMap' = setProc(procsMap, p)
    /\ UNCHANGED <<fetched, stopRequested>>
    /\ UNCHANGED <<isAlive, period, procs, lastCpuTimes, sent, now, ticks, ok, oproc,
                   mem_stat, t1, cpu_stat, event>>

\* a loop that never reads the flag: for { ... }
LoopCheck_IgnoresFlag ==
    /\ pc = "loop"
    /\ ticks < MaxTicks
    /\ pc' = "sleep"
    /\ ticks' = ticks + 1
    /\ logged' = {}
    /\ UNCHANGED <<fetched, stopRequested>>
    /\ UNCHANGED <<isAlive, period, procs, procsMap, lastCpuTimes, sent, now,
                   pids, process, ok, oproc, mem_stat, t1, cpu_stat, event>>

\* Run: for t.isAlive { ... }; return nil
LoopCheck ==
    /\ pc = "loop"
    /\ IF isAlive
       THEN /\ ticks < MaxTicks
            /\ pc' = "sleep"
            /\ ticks' = ticks + 1
       ELSE /\ pc' = "returned"
            /\ ticks' = ticks
    /\ logged' = {}
    /\ UNCHANGED <<fetched, stopRequested>>
    /\ UNCHANGED <<isAlive, period, procs, procsMap, lastCpuTimes, sent, now,
                   pids, process, ok, oproc, mem_stat, t1, cpu_stat, event>>

\* Run: time.Sleep(t.period); the sleep lasts at least the period
Sleep ==
    /\ pc = "sleep"
    /\ \E j \in SleepOvershoot : now' = now + period + j
    /\ pc' = "system"
    /\ sent' = <<>>
    /\ logged' = {}
    /\ UNCHANGED <<fetched, stopRequested>>
    /\ UNCHANGED <<isAlive, period, procs, procsMap, lastCpuTimes, ticks, pids,
                   process, ok, oproc, mem_stat, t1, cpu_stat, event>>

\* a call that works on a copy of the tracker: the baseline of t stays
CallGetCpuPercentage_OnCopy(cpu) ==
    LET r == getCpuPercentage(lastCpuTimes, cpu)
    IN  /\ t1' = lastCpuTimes
        /\ lastCpuTimes' = lastCpuTimes
        /\ cpu_stat' = [times |-> cpu, UserPercent |-> r.ret]

\* cpu_stat.UserPercent = t.getCpuPercentage(cpu_stat), cpu being the sample read
CallGetCpuPercentage(cpu) ==
    LET r == getCpuPercentage(lastCpuTimes, cpu)
    IN  /\ t1' = lastCpuTimes
        /\ lastCpuTimes' = r.lastCpuTimes
        /\ cpu_stat' = [times |-> cpu, UserPercent |-> r.ret]

\* a Run that returns the error of exportSystemStats: a failed query ends the loop
exportSystemStats_FailureEndsRun ==
    /\ pc = "system"
    /\ \E loadErr \in BOOLEAN, cpu \in RunCpuSamples \cup {Err},
          mem \in RunMemSamples \cup {Err}, swap \in RunMemSamples \cup {Err} :
          IF loadErr \/ cpu = Err
          THEN /\ pc' = "returned"
               /\ logged' = {"warn"}
               /\ UNCHANGED <<lastCpuTimes, t1, cpu_stat, event>>
          ELSE /\ CallGetCpuPercentage(cpu)
               /\ IF mem = Err \/ swap = Err
                  THEN /\ pc' = "returned"
                       /\ logged' = {"warn"}
                       /\ event' = NoEvent
                  ELSE /\ pc' = "sendSys"
                       /\ logged' = {}
                       /\ event' = [type |-> "system", pid |-> 0, cpu |-> cpu_stat',
                                    memUsedPercent |-> getUsedMemPercent(mem),
                                    swapUsedPercent |-> getUsedMemPercent(swap)]
    /\ UNCHANGED <<fetched, stopRequested>>
    /\ UNCHANGED <<isAlive, period, procs, procsMap, sent, now, ticks, pids,
                   process, ok, oproc, mem_stat>>

\* Run: t.exportSystemStats(), up to its send or its early return
exportSystemStats ==
    /\ pc = "system"
    /\ \E loadErr \in BOOLEAN, cpu \in RunCpuSamples \cup {Err},
          mem \in RunMemSamples \cup {Err}, swap \in RunMemSamples \cup {Err} :
          IF loadErr \/ cpu = Err
          THEN /\ pc' = "procs"
               /\ logged' = {"warn"}
               /\ UNCHANGED <<lastCpuTimes, t1, cpu_stat, event>>
          ELSE /\ CallGetCpuPercentage(cpu)
               /\ IF mem = Err \/ swap = Err
                  THEN /\ pc' = "procs"
                       /\ logged' = {"warn"}
                       /\ event' = NoEvent
                  ELSE /\ pc' = "sendSys"
                       /\ logged' = {}
                       /\ event' = [type |-> "system", pid |-> 0, cpu |-> cpu_stat',
                                    memUsedPercent |-> getUsedMemPercent(mem),
                                    swapUsedPercent |-> getUsedMemPercent(swap)]
    /\ UNCHANGED <<fetched, stopRequested>>
    /\ UNCHANGED <<isAlive, period, procs, procsMap, sent, now, ticks, pids,
                   process, ok, oproc, mem_stat>>

\* exportSystemStats: t.events <- event; return nil. The send blocks until the
\* publisher takes the event: the step is taken when, and if, it does
SendSystem ==
    /\ pc = "sendSys"
    /\ sent' = Append(sent, <<event.type, event.pid>>)
    /\ event' = NoEvent
    /\ pc' = "procs"
    /\ logged' = {}
    /\ UNCHANGED <<fetched, stopRequested>>
    /\ UNCHANGED <<isAlive, period, procs, procsMap, lastCpuTimes, now, ticks,
                   pids, process, ok, oproc, mem_stat, t1, cpu_stat>>

\* Run: t.exportProcStats(), up to its loop over the pids
exportProcStats ==
    /\ pc = "procs"
    /\ IF Len(procs) = 0
       THEN /\ pc' = "loop"
            /\ pids' = <<>>
            /\ logged' = {}
       ELSE \E res \in PidsResults :
               IF res.err
               THEN /\ pc' = "loop"
                    /\ pids' = <<>>
                    /\ logged' = {"warn"}
               ELSE /\ pc' = "procLoop"
                    /\ pids' = res.pids
                    /\ logged' = {}
    /\ fetched' = <<>>
    /\ UNCHANGED stopRequested
    /\ process' = NoProcess
    /\ t1' = NoCpuTimes
    /\ cpu_stat' = NoCpuTimes
    /\ UNCHANGED <<isAlive, period, procs, procsMap, lastCpuTimes, sent, now,
                   ticks, ok, oproc, mem_stat, event>>

\* exportProcStats: one turn of the loop over the pids, up to its send; with no
\* pid left, return nil
ProcStep ==
    /\ pc = "procLoop"
    /\ IF pids = <<>>
       THEN /\ pc' = "loop"
            /\ process' = NoProcess
            /\ logged' = {}
            /\ fetched' = <<>>
            /\ UNCHANGED <<pids, ok, oproc, mem_stat, procsMap, event>>
       ELSE \E got \in ProcReadings \cup {Err}, memRes \in RunMemSamples \cup {Err} :
               LET pid == Head(pids)
                   p == MkProcess(pid, got, now)
               IN  IF got = Err
                   THEN /\ process' = NoProcess
                        /\ pids' = Tail(pids)
                        /\ pc' = "procLoop"
                        /\ logged' = {"debug"}
                        /\ UNCHANGED <<ok, oproc, mem_stat, procsMap, event, fetched>>
                   ELSE IF MatchProcess(procs, p.Name)
                   THEN LET r == getProcCpuPercentage(procsMap, p)
                        IN  /\ process' = p
                            /\ ok' = (pid \in DOMAIN procsMap)
                            /\ oproc' = IF pid \in DOMAIN procsMap THEN procsMap[pid]
                                        ELSE NoProcess
                            /\ mem_stat' = memRes
                            /\ procsMap' = setProc(r.procsMap, p)
                            /\ event' = [type |-> "proc", pid |-> p.Pid, name |-> p.Name,
                                         userPercent |-> r.ret,
                                         rssPercent |-> getRssPercent(p.MemRss, memRes)]
                            /\ pc' = "sendProc"
                            /\ pids' = pids
                            /\ logged' = IF memRes = Err THEN {"warn"} ELSE {}
                            /\ fetched' = Append(fetched, <<p.Pid, p.Name>>)
                   ELSE /\ process' = p
                        /\ pids' = Tail(pids)
                        /\ pc' = "procLoop"
                        /\ logged' = {}
                        /\ fetched' = Append(fetched, <<p.Pid, p.Name>>)
                        /\ UNCHANGED <<ok, oproc, mem_stat, procsMap, event>>
    /\ UNCHANGED stopRequested
    /\ UNCHANGED <<isAlive, period, procs, lastCpuTimes, sent, now, ticks, t1,
                   cpu_stat>>

\* exportProcStats: t.events <- event, then the next pid
SendProc ==
    /\ pc = "sendProc"
    /\ sent' = Append(sent, <<event.type, event.pid>>)
    /\ event' = NoEvent
    /\ ok' = FALSE
    /\ oproc' = NoProcess
    /\ mem_stat' = Err
    /\ pids' = Tail(pids)
    /\ pc' = "procLoop"
    /\ logged' = {}
    /\ UNCHANGED <<fetched, stopRequested>>
    /\ UNCHANGED <<isAlive, period, procs, procsMap, lastCpuTimes, now, ticks,
                   process, t1, cpu_stat>>

\* the steps of the goroutine that runs main and Run
RunStep ==
    \/ TopbeatInit
    \/ RunStart
    \/ initProcStats
    \/ SeedStep
    \/ LoopCheck
    \/ Sleep
    \/ exportSystemStats
    \/ SendSystem
    \/ exportProcStats
    \/ ProcStep
    \/ SendProc

Next ==
    \/ TopbeatInit
    \/ RunStart
    \/ initProcStats
    \/ SeedStep
    \/ LoopCheck
    \/ Sleep
    \/ exportSystemStats
    \/ SendSystem
    \/ exportProcStats
    \/ ProcStep
    \/ SendProc
    \/ Stop

Spec == Init /\ [][Next]_vars

\* the Go scheduler keeps running a goroutine that can take a step, and every
\* send on t.events completes
FairSpec == Spec /\ WF_vars(RunStep)

\* ------------------------------------------------------------- SystemTracker alone
\* any sequence of calls of getCpuPercentage on a fresh Topbeat, over all the samples
CallCpu ==
    /\ \E cpu \in CpuSamples : CallGetCpuPercentage(cpu)
    /\ UNCHANGED <<pc, isAlive, period, procs, procsMap, sent, now, ticks, pids,
                   process, ok, oproc, mem_stat, event, logged, fetched, stopRequested>>

CpuSpec == Init /\ [][CallCpu]_vars

\* ------------------------------------------------------------- used percent alone
\* mem_stat.UsedPercent = t.getUsedMemPercent(mem_stat), and the same for
\* swap_stat, over all the samples
CallGetUsedMemPercent ==
    /\ \E m \in MemSamples :
          mem_stat' = [Total |-> m.Total, Used |-> m.Used,
                       UsedPercent |-> getUsedMemPercent(m)]
    /\ UNCHANGED <<pc, isAlive, period, procs, procsMap, lastCpuTimes, sent, now,
                   ticks, pids, process, ok, oproc, t1, cpu_stat, event, logged,
                   fetched, stopRequested>>

MemSpec == Init /\ [][CallGetUsedMemPercent]_vars

\* ------------------------------------------------------------- claims
\* v as a number of hundredths, for a finite v with at most two decimals
Hundredths(v) == (v.n * 100) \div v.d

\* n/d (n >= 0, d > 0) rounded half-up to two decimals
HalfUp2(n, d) == Fin((200 * n + d) \div (2 * d), 100)

\* a process was fetched in the last turn of a loop over the pids, and the
\* turn is over
Fetched == process # NoProcess
InMap(p) == p.Pid \in DOMAIN procsMap /\ procsMap[p.Pid] = p

\* C1: whenever a turn of the loop over the pids has fetched a process, matched
\* or not, the pid map holds that snapshot as the baseline of its pid.
C1_BaselineIsLatestSnapshot == Fetched => InMap(process)

\* C2: with a stored baseline and a wall-clock delta of 0 whole milliseconds,
\* the userPercent of the proc event is exactly 0.
C2_ZeroWallDeltaGivesZero ==
    (pc = "sendProc" /\ ok /\ delta_time(process, oproc) = 0)
        => event.userPercent = Float(0)

\* C3: with a stored system baseline and a sample whose eight counters sum to
\* the sum of the baseline, getCpuPercentage returns exactly 0.
C3_ZeroDeltaAllGivesZero ==
    (t1 # NoCpuTimes /\ cpu_stat # NoCpuTimes /\ sum(cpu_stat.times) = sum(t1))
        => cpu_stat.UserPercent = Float(0)

\* C4: when GetMemory fails or reports a total of zero, the rssPercent of the
\* proc event is 0.
C4_RssPercentZeroWithoutTotal ==
    (pc = "sendProc" /\ (mem_stat = Err \/ mem_stat.Total = 0))
        => event.rssPercent = Float(0)

\* C5: after every call of getCpuPercentage the stored baseline is the sample
\* passed to the call, and the call made without a baseline returned 0.
C5_BaselineIsSamplePassed ==
    cpu_stat # NoCpuTimes
        => /\ lastCpuTimes = cpu_stat.times
           /\ (t1 = NoCpuTimes => cpu_stat.UserPercent = Float(0))

C5_Witness ==
    /\ t1 # NoCpuTimes
    /\ cpu_stat # NoCpuTimes
    /\ cpu_stat.times # t1
    /\ cpu_stat.UserPercent.k = "fin"
    /\ cpu_stat.UserPercent.n > 0

\* the counters of cur are at or above those of prev
Monotone(prev, cur) ==
    /\ cur.User >= prev.User /\ cur.Nice >= prev.Nice /\ cur.System >= prev.System
    /\ cur.Idle >= prev.Idle /\ cur.IOWait >= prev.IOWait /\ cur.Irq >= prev.Irq
    /\ cur.SoftIrq >= prev.SoftIrq /\ cur.Steal >= prev.Steal

Total(t) == t.User + t.Nice + t.System + t.Idle + t.IOWait + t.Irq + t.SoftIrq + t.Steal

\* a second call on non-decreasing counters with deltaAll > 0 and deltaUser > 0
\* (100 * deltaUser and the sums within the width of the counters)
C6_Case ==
    /\ t1 # NoCpuTimes
    /\ cpu_stat # NoCpuTimes
    /\ Monotone(t1, cpu_stat.times)
    /\ Total(cpu_stat.times) < Word
    /\ 100 * (cpu_stat.times.User - t1.User) < Word
    /\ Total(cpu_stat.times) - Total(t1) > 0
    /\ cpu_stat.times.User - t1.User > 0

\* C6 as stated: in that case the value returned is in (0, 100].
C6_InOpenZeroTo100 ==
    C6_Case => /\ cpu_stat.UserPercent.k = "fin"
               /\ Hundredths(cpu_stat.UserPercent) > 0
               /\ Hundredths(cpu_stat.UserPercent) <= 10000

\* C6 amended: in that case the value returned is in [0, 100], and it is 0
\* exactly when 100 * deltaUser / deltaAll is below 0.005.
C6_InClosedZeroTo100 ==
    C6_Case => /\ cpu_stat.UserPercent.k = "fin"
               /\ Hundredths(cpu_stat.UserPercent) >= 0
               /\ Hundredths(cpu_stat.UserPercent) <= 10000
               /\ (Hundredths(cpu_stat.UserPercent) = 0
                     <=> 20000 * (cpu_stat.times.User - t1.User)
                           < Total(cpu_stat.times) - Total(t1))

C6_Witness ==
    /\ C6_Case
    /\ cpu_stat.UserPercent = Float(0)

\* C7: a matched process without a baseline is reported with userPercent 0 and
\* its snapshot is the baseline of its pid from then on.
C7_NewPidReportsZeroAndSeeds ==
    (pc = "sendProc" /\ ~ok)
        => /\ event.userPercent = Float(0)
           /\ event.pid = process.Pid
           /\ InMap(process)

C7_Witness ==
    /\ pc = "sendProc"
    /\ ~ok
    /\ ticks = 2
    /\ DOMAIN procsMap = {1, 2}

\* deltaCpuMs of two snapshots, in the arithmetic of the counters
DeltaCpuMs(cur, prev) ==
    ((cur.CpuUser - prev.CpuUser) + (cur.CpuSystem - prev.CpuSystem)) % Word

Running ==
    pc \in {"seed", "seedLoop", "loop", "sleep", "system", "sendSys", "procs",
            "procLoop", "sendProc"}

\* C9: once Stop has cleared the flag while Run is running, the flag stays
\* cleared, no further iteration is started, and Run returns.
C9_StopEndsRun ==
    /\ [][(Running /\ ~isAlive) => (~isAlive' /\ ticks' = ticks)]_vars
    /\ (Running /\ ~isAlive) ~> (pc = "returned")

C9_Witness ==
    /\ pc = "returned"
    /\ ticks = 1
    /\ Len(sent) = 3

\* the first sleep of the loop has not completed
BeforeFirstSleepDone == ticks = 0 \/ (ticks = 1 /\ pc = "sleep")

\* C10: the seeding runs once, before the first sleep; it stores every process
\* it fetches; no event is built or sent until the first sleep has completed.
C10_SilentSeedingOnce ==
    /\ [](BeforeFirstSleepDone => (sent = <<>> /\ event = NoEvent))
    /\ []((pc = "seedLoop" /\ Fetched) => InMap(process))
    /\ [](pc \in {"seed", "seedLoop"} => ticks = 0)
    /\ [][pc' = "seed" => pc \in {"ready", "seed"}]_vars

C10_Witness ==
    /\ pc = "sleep"
    /\ ticks = 1
    /\ DOMAIN procsMap = {1, 2}
    /\ procsMap[1].Name # procsMap[2].Name

\* name matches at least one of the configured patterns
NameMatches(name) == \E i \in 1..Len(procs) : RegexpMatchString(procs[i], name)

\* the proc events due for the processes fetched in a pass: one for each process
\* whose name matches a pattern, in the order of the enumeration
RECURSIVE ProcEventsDue(_)
ProcEventsDue(f) ==
    IF f = <<>> THEN <<>>
    ELSE IF NameMatches(Head(f)[2])
         THEN << <<"proc", Head(f)[1]>> >> \o ProcEventsDue(Tail(f))
         ELSE ProcEventsDue(Tail(f))

\* the events of this tick after its system event, if it has one
ProcPart(s) == IF s # <<>> /\ s[1] = <<"system", 0>> THEN Tail(s) ELSE s

\* C11: a pass over the system sources that logs no failure builds one system
\* event, which is sent before anything else in the tick; the events that follow
\* it are the proc events of the fetched processes whose name matches a pattern,
\* one each, in the order of the enumeration, and none for the other processes.
C11_OneSystemThenMatchedProcs ==
    /\ [][(pc = "system" /\ pc' # pc /\ "warn" \notin logged')
             => (pc' = "sendSys" /\ event'.type = "system" /\ sent' = <<>>)]_vars
    /\ [][(pc = "sendSys" /\ pc' # pc)
             => (pc' = "procs" /\ sent' = << <<"system", 0>> >>)]_vars
    /\ [](pc = "procLoop" => ProcPart(sent) = ProcEventsDue(fetched))
    /\ [](pc = "sendProc"
            => ProcPart(sent) \o << <<event.type, event.pid>> >> = ProcEventsDue(fetched))

C11_Witness ==
    /\ pc = "procLoop"
    /\ pids = <<>>
    /\ fetched = << <<2, "nginx-worker">>, <<1, "nginx">> >>
    /\ sent = << <<"system", 0>>, <<"proc", 1>> >>

\* C12: a pass over the system sources that logs a failure builds and sends no
\* event and hands over to the process pass of the same tick; the process pass
\* adds proc events only; a sleep that ends is followed by a new pass over the
\* system sources; Run returns only from the loop test, with the flag cleared.
C12_FailedSampleSkipsEventOnly ==
    /\ [][(pc = "system" /\ "warn" \in logged')
             => (pc' = "procs" /\ event' = NoEvent /\ sent' = <<>>)]_vars
    /\ [][(pc \in {"procs", "procLoop", "sendProc", "loop"})
             => \/ sent' = sent
                \/ \E pid \in ProcessIds : sent' = Append(sent, <<"proc", pid>>)]_vars
    /\ [][(pc = "sleep" /\ pc' # pc) => pc' = "system"]_vars
    /\ [][(pc = "loop" /\ isAlive /\ pc' # pc) => pc' = "sleep"]_vars
    /\ [][(pc' = "returned" /\ pc # "returned") => (pc = "loop" /\ ~isAlive)]_vars

\* both ticks failed before the cpu sample was stored, and the process pass of
\* the second tick runs
C12_Witness ==
    /\ pc = "sendProc"
    /\ ticks = 2
    /\ sent = <<>>
    /\ lastCpuTimes = NoCpuTimes

\* a step of Run that is a turn of a loop over the pids in which GetProcess
\* failed
FetchFailed ==
    /\ pc \in {"seedLoop", "procLoop"}
    /\ pids # <<>>
    /\ UNCHANGED <<isAlive, stopRequested>>
    /\ process' = NoProcess

\* C13: a turn in which the fetch of the pid fails logs no warning, leaves the
\* pid map, the events sent and the event in hand unchanged, and goes on to the
\* next pid of the same enumeration in the same pass.
C13_FailedFetchIsSkipped ==
    [][FetchFailed
         => /\ "warn" \notin logged'
            /\ procsMap' = procsMap
            /\ sent' = sent
            /\ event' = NoEvent
            /\ pc' = pc
            /\ pids' = Tail(pids)]_vars

\* the enumeration was <<1, 2>>: the fetch of pid 1 failed, its entry stayed,
\* and pid 2 was fetched and is reported
C13_Witness ==
    /\ pc = "sendProc"
    /\ pids = <<2>>
    /\ Len(fetched) = 1
    /\ 1 \in DOMAIN procsMap

\* the period Init derives from a configuration
PeriodOf(c) == IF c.Period # NoCfg THEN c.Period.v * Second ELSE 1 * Second

\* C14 as stated: Init leaves the single pattern ".*" when the pattern setting
\* is absent or is an empty list, and the configured list otherwise.
C14_NoPatternsMeansMatchAll ==
    [][(pc = "new" /\ pc' = "ready")
         => \E c \in Configs :
               /\ period' = PeriodOf(c)
               /\ procs' = IF c.Procs = NoCfg \/ c.Procs.v = <<>>
                            THEN <<".*">> ELSE c.Procs.v]_vars

\* C14 amended: Init leaves the single pattern ".*" when the pattern setting is
\* absent, and the configured list otherwise, an empty one included; with the
\* single pattern ".*" every fetched process has its proc event; with an empty
\* list nothing is seeded, no process is fetched and no proc event is sent.
C14_AbsentMeansMatchAll ==
    /\ [][(pc = "new" /\ pc' = "ready")
             => \E c \in Configs :
                   /\ period' = PeriodOf(c)
                   /\ procs' = IF c.Procs = NoCfg THEN <<".*">> ELSE c.Procs.v]_vars
    /\ []((procs = <<".*">> /\ pc = "procLoop")
            => Len(ProcPart(sent)) = Len(fetched))
    /\ []((pc # "new" /\ procs = <<>>)
            => /\ procsMap = <<>>
               /\ fetched = <<>>
               /\ pc \notin {"seedLoop", "procLoop", "sendProc"}
               /\ ProcPart(sent) = <<>>)

\* two ticks with an empty pattern list: system events only, nothing seeded
C14_Witness ==
    /\ pc = "loop"
    /\ ticks = 2
    /\ procs = <<>>
    /\ procsMap = <<>>
    /\ sent = << <<"system", 0>> >>

AtSend == pc \in {"sendSys", "sendProc"}

\* C16: while Run stands at a send, every step either completes that send or
\* leaves Run where it is: nothing is queried, no baseline and no pid map entry
\* changes, no event is built or sent, the clock of Run does not advance, and a
\* Stop changes the flag only, Run does not return.
C16_BlockedSendStallsRun ==
    [][AtSend
         => \/ /\ sent' = Append(sent, <<event.type, event.pid>>)
               /\ pc' \in {"procs", "procLoop"}
            \/ UNCHANGED <<pc, period, procs, procsMap, lastCpuTimes, sent, now,
                           ticks, pids, process, ok, oproc, mem_stat, t1, cpu_stat,
                           event, logged, fetched>>]_vars

\* the flag was cleared and Run still stands at the send of a proc event
C16_Witness ==
    /\ pc = "sendProc"
    /\ stopRequested
    /\ ~isAlive
    /\ sent = << <<"system", 0>> >>

\* a matched process is measured against a baseline stored for another process
\* name: the pid was reused
PidReused == pc = "sendProc" /\ ok /\ oproc.Name # process.Name

\* C17: no step removes a key from the pid map; a process that reuses the pid of
\* another one is measured against the entry the pid already has, not reported
\* as a first observation.
C17_PidMapNeverPruned ==
    /\ [][DOMAIN procsMap \subseteq DOMAIN procsMap']_vars
    /\ []((PidReused /\ delta_time(process, oproc) > 0)
            => event.userPercent =
                  HalfUp2(100 * DeltaCpuMs(process, oproc), delta_time(process, oproc)))

\* pid 1 is reported under a new name against the old entry, while the entry of
\* pid 2 is still in the map
C17_Witness ==
    /\ PidReused
    /\ delta_time(process, oproc) > 0
    /\ event.userPercent # Float(0)
    /\ process.Pid = 1
    /\ pids = <<1>>
    /\ 2 \in DOMAIN procsMap

\* the second of two consecutive samples is below the first in the user
\* counter or in the sum of the eight counters
CounterRegressed ==
    /\ t1 # NoCpuTimes
    /\ cpu_stat # NoCpuTimes
    /\ \/ cpu_stat.times.User < t1.User
       \/ Total(cpu_stat.times) < Total(t1)

\* C18 as stated: after a regression the value returned is the rounding of
\* 100 * deltaUser / deltaAll with the signed deltas.
C18_RegressGivesSignedDelta ==
    CounterRegressed
        => cpu_stat.UserPercent =
              Round(FDiv(Float(100 * (cpu_stat.times.User - t1.User)),
                         Float(Total(cpu_stat.times) - Total(t1))), 1, 2, 2)

\* C18 amended: after a regression the deltas are the differences modulo the
\* width of the counters, the hundredfold user delta is taken modulo the width
\* again, and the value returned is never negative.
C18_RegressWrapsAround ==
    CounterRegressed
        => /\ cpu_stat.UserPercent =
                 Round(FDiv(Float((100 * ((cpu_stat.times.User - t1.User) % Word)) % Word),
                            Float((Total(cpu_stat.times) - Total(t1)) % Word)), 1, 2, 2)
           /\ Sign(cpu_stat.UserPercent) >= 0

\* the user counter fell back and the value returned is above 100
C18_Witness ==
    /\ CounterRegressed
    /\ cpu_stat.times.User < t1.User
    /\ cpu_stat.UserPercent.k = "fin"
    /\ Hundredths(cpu_stat.UserPercent) > 10000

\* C19 as stated: a pass over the system sources that ends without an event
\* leaves the cpu baseline unchanged, and one that builds an event has stored
\* its sample as the baseline.
C19_BaselineChangesOnlyWithEvent ==
    /\ [][(pc = "system" /\ pc' = "procs") => lastCpuTimes' = lastCpuTimes]_vars
    /\ [][(pc = "system" /\ pc' = "sendSys") => lastCpuTimes' = event'.cpu.times]_vars

\* C19 amended: the cpu baseline changes only in the pass over the system
\* sources; the pass replaces it by the cpu sample as soon as it has read one,
\* with or without an event after that, and leaves it unchanged when it has
\* read none; the event built reports the sample against the baseline replaced.
C19_BaselineChangesWithCpuSample ==
    /\ [][pc # "system" => lastCpuTimes' = lastCpuTimes]_vars
    /\ [][(pc = "system" /\ pc' # pc)
             => IF cpu_stat' # NoCpuTimes
                THEN lastCpuTimes' = cpu_stat'.times /\ t1' = lastCpuTimes
                ELSE lastCpuTimes' = lastCpuTimes]_vars
    /\ [](pc = "system" => cpu_stat = NoCpuTimes)
    /\ [](pc = "sendSys" => event.cpu = cpu_stat)

\* the second tick has no system event, and its pass has replaced the baseline
\* of the first tick by its own sample
C19_Witness ==
    /\ pc = "procs"
    /\ ticks = 2
    /\ sent = <<>>
    /\ event = NoEvent
    /\ t1 # NoCpuTimes
    /\ cpu_stat # NoCpuTimes
    /\ lastCpuTimes = cpu_stat.times
    /\ lastCpuTimes # t1

\* C20: once Stop has been called, whenever that was after the registration of
\* the handler, the next test of the loop ends Run: no further iteration starts.
C20_StopIsNeverLost ==
    [][(stopRequested /\ pc = "loop" /\ pc' # pc) => pc' = "returned"]_vars

====
